---- MODULE Spec2Model ----
(***************************************************************************)
(* A model of the subtree engine of jj (lib/src/subtree): the prefix tree  *)
(* algorithms and the history filter of core.rs, the trailer codec of      *)
(* metadata.rs, and the remote operations of backend.rs and                *)
(* git_backend.rs.                                                         *)
(*                                                                         *)
(* Text is a sequence of one-character strings.  A repository path is a    *)
(* sequence of components, a component a non-empty text without "/".  A    *)
(* tree is a function from the paths of its files to their values; a       *)
(* directory exists exactly where a file lies below it.                    *)
(***************************************************************************)
EXTENDS Integers, Sequences, FiniteSets, TLC

VARIABLES
    source,     \* the tree the caller started from
    prefix,     \* the prefix the caller passes to every call
    tree,       \* the tree the next call is given (the last Ok result)
    ops,        \* the calls made so far that returned Ok, oldest first
    last,       \* the last call made, "none" before the first
    err,        \* "none", or the error of the last call
    writes,     \* number of write_tree calls made on the store
    answer      \* the last answer of has_subtree_at_prefix / prefix_conflicts_with_file

treeVars == <<source, prefix, tree, ops, last, err, writes, answer>>

VARIABLES
    commits,    \* the commits of the store: commit i is commits[i]
    filtered    \* the outcome of the last filter_commits_by_prefix call

filterVars == <<commits, filtered>>

VARIABLES
    metadata,   \* the SubtreeMetadata the caller stamps
    descs,      \* the description given, then the result of every add_to_description
    parsed,     \* the result of the last SubtreeMetadata::parse, of the last description
    formatted,  \* the result of the last format_trailers, of the metadata
    has         \* the result of the last has_metadata, of the last description

metaVars == <<metadata, descs, parsed, formatted, has>>

VARIABLES
    store_git,    \* whether the store is backed by Git (get_git_backend is Ok)
    backend,      \* the SubtreeBackend the caller holds, and what made it
    supported,    \* the last answer of supports_remote_operations
    temp_remote,  \* the repository the remote jj-subtree-temp points at, or "none"
    local_refs,   \* the refs of the Git repository under refs/jj/subtree-fetch
    remote,       \* the refs of every remote repository
    calls         \* per caller, the fetch_remote / push_remote call it makes

backendVars == <<store_git, backend, supported, temp_remote, local_refs, remote, calls>>

vars == <<treeVars, filterVars, metaVars, backendVars>>

(***************************************************************************)
(* Bounds of the model.                                                    *)
(***************************************************************************)
MaxDepth == 2
MaxFiles == 2
MaxPrefixLen == 2
MaxOps == 2
MaxCommits == 3
MaxInput == 2
MaxLines == 3
MaxStamps == 2
MaxTrailers == 3

Names == {<<"a">>, <<"b">>}
Values == {"v1", "v2"}

(***************************************************************************)
(* Repository paths (crate::repo_path).                                    *)
(***************************************************************************)
root == <<>>

is_root(path) == Len(path) = 0

\* RepoPath::as_internal_file_string: the components joined by "/".
RECURSIVE as_internal_file_string(_)
as_internal_file_string(path) ==
    IF Len(path) = 0 THEN <<>>
    ELSE IF Len(path) = 1 THEN path[1]
    ELSE path[1] \o <<"/">> \o as_internal_file_string(Tail(path))

\* The text split at every "/" (str::split('/')): one piece more than there
\* are slashes, pieces possibly empty.
RECURSIVE SplitSlash(_, _)
SplitSlash(s, piece) ==
    IF Len(s) = 0 THEN <<piece>>
    ELSE IF Head(s) = "/" THEN <<piece>> \o SplitSlash(Tail(s), <<>>)
    ELSE SplitSlash(Tail(s), Append(piece, Head(s)))

\* RepoPathBuf::from_internal_string: the empty text is the root; a text
\* that starts or ends with "/" or holds "//" is refused.
from_internal_string(s) ==
    IF Len(s) = 0 THEN [ok |-> TRUE, path |-> root]
    ELSE LET pieces == SplitSlash(s, <<>>)
         IN  IF \E i \in 1..Len(pieces) : Len(pieces[i]) = 0
             THEN [ok |-> FALSE, path |-> root]
             ELSE [ok |-> TRUE, path |-> pieces]

\* RepoPath::starts_with.
starts_with(path, base) ==
    /\ Len(base) <= Len(path)
    /\ SubSeq(path, 1, Len(base)) = base

\* RepoPath::strip_prefix: the rest of the path below base, or none.
strip_prefix(path, base) ==
    IF starts_with(path, base)
    THEN [some |-> TRUE, path |-> SubSeq(path, Len(base) + 1, Len(path))]
    ELSE [some |-> FALSE, path |-> root]

\* RepoPath::ancestors: the path itself, its parent, ... up to the root.
ancestors(path) == [i \in 1..(Len(path) + 1) |-> SubSeq(path, 1, Len(path) + 1 - i)]

\* PrefixMatcher::new([prefix]).matches(path)
matches(pfx, path) == starts_with(path, pfx)

(***************************************************************************)
(* Trees (crate::merged_tree, crate::merged_tree_builder).                 *)
(***************************************************************************)
empty_tree == [p \in {} |-> "v1"]

\* MergedTree::entries: the (path, value) pairs of the files of the tree.
entries(t) == {<<p, t[p]>> : p \in DOMAIN t}

\* MergedTree::entries_matching
entries_matching(t, pfx) == {e \in entries(t) : matches(pfx, e[1])}

\* MergedTree::path_value: the file at the path, "tree" for a directory,
\* "absent" when nothing is there.
path_value(t, path) ==
    IF path \in DOMAIN t THEN [kind |-> "file", value |-> t[path]]
    ELSE IF is_root(path) \/ \E p \in DOMAIN t : starts_with(p, path)
         THEN [kind |-> "tree", value |-> "none"]
         ELSE [kind |-> "absent", value |-> "none"]

is_absent(v) == v.kind = "absent"
is_tree(v) == v.kind = "tree"

\* MergedTreeBuilder over the empty tree: set_or_remove records one
\* override per path, write_tree builds the tree that holds them.
write_tree(overrides) ==
    [p \in {e[1] : e \in overrides} |-> (CHOOSE e \in overrides : e[1] = p)[2]]

\* No file of the tree lies below another file.
WellFormed(t) ==
    \A p, q \in DOMAIN t : (p # q) => ~starts_with(q, p)

PathsUpTo(n) == UNION {[1..k -> Names] : k \in 0..n}

FilePaths == PathsUpTo(MaxDepth) \ {root}

Trees ==
    LET shapes == {S \in SUBSET FilePaths : Cardinality(S) <= MaxFiles}
        all == UNION {[S -> Values] : S \in shapes}
    IN  {t \in all : WellFormed(t)}

Prefixes == PathsUpTo(MaxPrefixLen)

(***************************************************************************)
(* core.rs                                                                 *)
(***************************************************************************)
\* A join that puts the suffix first.
join_paths_swapped(pfx, suffix) ==
    IF is_root(pfx) THEN suffix
    ELSE IF is_root(suffix) THEN pfx
    ELSE from_internal_string(
             as_internal_file_string(suffix) \o <<"/">> \o as_internal_file_string(pfx)).path

join_paths(pfx, suffix) ==
    IF is_root(pfx) THEN suffix
    ELSE IF is_root(suffix) THEN pfx
    ELSE from_internal_string(
             as_internal_file_string(pfx) \o <<"/">> \o as_internal_file_string(suffix)).path

Ok(t) == [ok |-> TRUE, tree |-> t, error |-> "none"]
Err(e) == [ok |-> FALSE, tree |-> empty_tree, error |-> e]

\* A move that does not refuse the root.
move_tree_to_prefix_unchecked(source_tree, pfx) ==
    Ok(write_tree({<<join_paths(pfx, e[1]), e[2]>> : e \in entries(source_tree)}))

move_tree_to_prefix(source_tree, pfx) ==
    IF is_root(pfx) THEN Err("InvalidPrefix")
    ELSE Ok(write_tree({<<join_paths(pfx, e[1]), e[2]>> : e \in entries(source_tree)}))

\* An extract that leaves the prefix on the paths it keeps.
extract_subtree_unstripped(source_tree, pfx) ==
    IF is_root(pfx) THEN Err("InvalidPrefix")
    ELSE Ok(write_tree(
             {<<e[1], e[2]>> :
                 e \in {x \in entries_matching(source_tree, pfx) :
                           /\ strip_prefix(x[1], pfx).some
                           /\ ~is_root(strip_prefix(x[1], pfx).path)}}))

\* An extract that also takes entries from outside the prefix, cutting as
\* many components off them.
extract_subtree_unmatched(source_tree, pfx) ==
    IF is_root(pfx) THEN Err("InvalidPrefix")
    ELSE Ok(write_tree(
             {<<SubSeq(e[1], Len(pfx) + 1, Len(e[1])), e[2]>> :
                 e \in {x \in entries(source_tree) : Len(x[1]) > Len(pfx)}}))

\* An extract that does not skip the entry at the prefix itself.
extract_subtree_with_prefix_entry(source_tree, pfx) ==
    IF is_root(pfx) THEN Err("InvalidPrefix")
    ELSE Ok(write_tree(
             {<<strip_prefix(e[1], pfx).path, e[2]>> :
                 e \in {x \in entries_matching(source_tree, pfx) :
                           strip_prefix(x[1], pfx).some}}))

extract_subtree(source_tree, pfx) ==
    IF is_root(pfx) THEN Err("InvalidPrefix")
    ELSE Ok(write_tree(
             {<<strip_prefix(e[1], pfx).path, e[2]>> :
                 e \in {x \in entries_matching(source_tree, pfx) :
                           /\ strip_prefix(x[1], pfx).some
                           /\ ~is_root(strip_prefix(x[1], pfx).path)}}))

\* An existence test that looks only at the prefix path itself.
has_subtree_at_prefix_exact(t, pfx) == \E e \in entries(t) : e[1] = pfx

has_subtree_at_prefix(t, pfx) == entries_matching(t, pfx) # {}

\* A conflict test that looks only at the prefix path, not above it.
prefix_conflicts_with_file_self_only(t, pfx) ==
    IF ~is_absent(path_value(t, pfx)) /\ ~is_tree(path_value(t, pfx))
    THEN [some |-> TRUE, path |-> pfx]
    ELSE [some |-> FALSE, path |-> root]

\* The first path of the walk, from the prefix up to the root, that holds a
\* file; then the prefix itself once more.
prefix_conflicts_with_file(t, pfx) ==
    LET walk == ancestors(pfx)
        hits == {i \in 1..Len(walk) :
                    /\ ~is_root(walk[i])
                    /\ ~is_absent(path_value(t, walk[i]))
                    /\ ~is_tree(path_value(t, walk[i]))}
    IN  IF hits # {}
        THEN [some |-> TRUE, path |-> walk[CHOOSE i \in hits : \A j \in hits : i <= j]]
        ELSE IF ~is_absent(path_value(t, pfx)) /\ ~is_tree(path_value(t, pfx))
             THEN [some |-> TRUE, path |-> pfx]
             ELSE [some |-> FALSE, path |-> root]

(***************************************************************************)
(* The remote repositories and the callers of the remote operations.  A    *)
(* ref name is a text; "refs", "heads", "main" ... are written as one      *)
(* letter each.  A caller that makes no call is at IdleCall.               *)
(***************************************************************************)
Callers == {1, 2}

Repositories == {"r1", "r2"}

NoRefs == [name \in {} |-> <<>>]

\* The repository r1 has the branch main, r2 has no ref.
RemoteRepositories ==
    [r \in Repositories |->
        IF r = "r1" THEN (<<"refs", "/", "heads", "/", "main">> :> <<205>>) ELSE NoRefs]

\* No backend made yet.
NoBackend == [kind |-> "none", made |-> "none"]

NoResult == [ok |-> FALSE, error |-> [kind |-> "none"]]

IdleCall ==
    [pc |-> "idle", op |-> "none", repository |-> "none", remote_ref |-> <<>>,
     local_commit |-> <<>>, force |-> FALSE,
     setup |-> <<>>, attempt |-> <<>>, cleanup |-> <<>>,
     result |-> NoResult, returned |-> NoResult]

(***************************************************************************)
(* The calls of the tree algorithms.  Move and Extract hand their Ok       *)
(* result to the next call, as test_roundtrip_move_and_extract does.  The  *)
(* store is taken to be reliable: no read or write of a tree fails.        *)
(***************************************************************************)
NoAnswer == [q |-> "none"]

Init ==
    /\ source \in Trees
    /\ prefix \in Prefixes
    /\ tree = source
    /\ ops = <<>>
    /\ last = "none"
    /\ err = "none"
    /\ writes = 0
    /\ answer = NoAnswer
    /\ commits = <<>>
    /\ filtered = [status |-> "none"]
    /\ metadata = [subtree_dir |-> [some |-> FALSE, v |-> <<>>],
                   mainline_commit |-> [some |-> FALSE, v |-> <<>>],
                   split_commit |-> [some |-> FALSE, v |-> <<>>]]
    /\ descs = <<>>
    /\ parsed = [some |-> FALSE]
    /\ formatted = [some |-> FALSE]
    /\ has = [some |-> FALSE]
    /\ store_git = FALSE
    /\ backend = NoBackend
    /\ supported = [some |-> FALSE]
    /\ temp_remote = "none"
    /\ local_refs = NoRefs
    /\ remote = RemoteRepositories
    /\ calls = [c \in Callers |-> IdleCall]

\* The caller's side of a call that returns r; write_tree is reached, and
\* the store written, only on the Ok path.
Apply(name, r) ==
    /\ last' = name
    /\ err' = r.error
    /\ tree' = IF r.ok THEN r.tree ELSE tree
    /\ ops' = IF r.ok THEN Append(ops, name) ELSE ops
    /\ writes' = IF r.ok THEN writes + 1 ELSE writes
    /\ UNCHANGED <<source, prefix, answer>>
    /\ UNCHANGED <<filterVars, metaVars, backendVars>>

Move ==
    /\ Len(ops) < MaxOps
    /\ Apply("move", move_tree_to_prefix(tree, prefix))

Extract ==
    /\ Len(ops) < MaxOps
    /\ Apply("extract", extract_subtree(tree, prefix))

HasSubtree ==
    /\ answer' = [q |-> "has", value |-> has_subtree_at_prefix(tree, prefix)]
    /\ UNCHANGED <<source, prefix, tree, ops, last, err, writes>>
    /\ UNCHANGED <<filterVars, metaVars, backendVars>>

PrefixConflicts ==
    /\ answer' = [q |-> "conflict", value |-> prefix_conflicts_with_file(tree, prefix)]
    /\ UNCHANGED <<source, prefix, tree, ops, last, err, writes>>
    /\ UNCHANGED <<filterVars, metaVars, backendVars>>

(***************************************************************************)
(* The history filter.  A commit has a list of parents, all older commits  *)
(* of the store, and a tree.                                               *)
(***************************************************************************)
FilterPrefixes == {<<<<"a">>>>, <<<<"a">>, <<"b">>>>}

CommitTrees ==
    { empty_tree,
      [p \in {<<<<"a">>, <<"b">>>>} |-> "v1"],
      [p \in {<<<<"b">>>>} |-> "v1"] }

\* The sequences of at most n different elements of S.
RECURSIVE DistinctSeqs(_, _)
DistinctSeqs(S, n) ==
    IF n = 0 THEN {<<>>}
    ELSE LET shorter == DistinctSeqs(S, n - 1)
             longest == {q \in shorter : Len(q) = n - 1}
         IN  shorter \cup
             UNION {{Append(q, x) : x \in S \ {q[i] : i \in 1..Len(q)}} : q \in longest}

\* MergedTree::diff_stream: the paths the matcher accepts at which the two
\* trees hold different values.
diff_stream(before, after, pfx) ==
    {p \in (DOMAIN before) \cup (DOMAIN after) :
        /\ matches(pfx, p)
        /\ path_value(before, p) # path_value(after, p)}

\* A filter that compares with the last parent.
commit_modifies_prefix_last_parent(store, commit, pfx) ==
    LET current_tree == store[commit].tree
        parent_ids == store[commit].parents
        parent_tree == IF Len(parent_ids) = 0 THEN empty_tree
                       ELSE store[parent_ids[Len(parent_ids)]].tree
    IN  diff_stream(parent_tree, current_tree, pfx) # {}

commit_modifies_prefix(store, commit, pfx) ==
    LET current_tree == store[commit].tree
        parent_ids == store[commit].parents
        parent_tree == IF Len(parent_ids) = 0 THEN empty_tree
                       ELSE store[parent_ids[1]].tree
    IN  diff_stream(parent_tree, current_tree, pfx) # {}

\* The loop of filter_commits_by_prefix: one push per input commit.
RECURSIVE FilterLoop(_, _, _, _)
FilterLoop(store, input, pfx, results) ==
    IF Len(input) = 0 THEN results
    ELSE FilterLoop(store, Tail(input), pfx,
                    Append(results, <<Head(input), commit_modifies_prefix(store, Head(input), pfx)>>))

\* A loop that keeps only the commits that changed the prefix.
RECURSIVE FilterLoopKeepingHits(_, _, _, _)
FilterLoopKeepingHits(store, input, pfx, results) ==
    IF Len(input) = 0 THEN results
    ELSE FilterLoopKeepingHits(store, Tail(input), pfx,
            IF commit_modifies_prefix(store, Head(input), pfx)
            THEN Append(results, <<Head(input), TRUE>>)
            ELSE results)

filter_commits_by_prefix_keeping_hits(store, input, pfx) ==
    FilterLoopKeepingHits(store, input, pfx, <<>>)

filter_commits_by_prefix(store, input, pfx) == FilterLoop(store, input, pfx, <<>>)

NotFiltered == [status |-> "none"]

\* No commit yet, and no tree call made or to be made.
FilterInit ==
    /\ commits = <<>>
    /\ filtered = NotFiltered
    /\ source = empty_tree
    /\ prefix = root
    /\ tree = empty_tree
    /\ ops = <<>>
    /\ last = "none"
    /\ err = "none"
    /\ writes = 0
    /\ answer = NoAnswer
    /\ metadata = [subtree_dir |-> [some |-> FALSE, v |-> <<>>],
                   mainline_commit |-> [some |-> FALSE, v |-> <<>>],
                   split_commit |-> [some |-> FALSE, v |-> <<>>]]
    /\ descs = <<>>
    /\ parsed = [some |-> FALSE]
    /\ formatted = [some |-> FALSE]
    /\ has = [some |-> FALSE]
    /\ store_git = FALSE
    /\ backend = NoBackend
    /\ supported = [some |-> FALSE]
    /\ temp_remote = "none"
    /\ local_refs = NoRefs
    /\ remote = RemoteRepositories
    /\ calls = [c \in Callers |-> IdleCall]

\* CommitBuilder::write, as the tests use it: a new commit on parents that
\* are in the store already.  A commit may have no parent, whatever its tree.
NewCommit ==
    /\ Len(commits) < MaxCommits
    /\ \E parents \in DistinctSeqs(1..Len(commits), 2), t \in CommitTrees :
           commits' = Append(commits, [parents |-> parents, tree |-> t])
    /\ filtered' = NotFiltered
    /\ UNCHANGED <<treeVars, metaVars, backendVars>>

\* One call on the store as it stands; its outcome stays until the next
\* commit is written.
Filter ==
    /\ filtered = NotFiltered
    /\ \E input \in DistinctSeqs(1..Len(commits), MaxInput), pfx \in FilterPrefixes :
           filtered' = [status |-> "ok", input |-> input, prefix |-> pfx,
                        results |-> filter_commits_by_prefix(commits, input, pfx)]
    /\ UNCHANGED commits
    /\ UNCHANGED <<treeVars, metaVars, backendVars>>

\* A read of the store fails (commit.tree()?, get_commit(..)?): the call
\* returns the backend error and no list.
FilterFails ==
    /\ filtered = NotFiltered
    /\ Len(commits) > 0
    /\ filtered' = [status |-> "Backend"]
    /\ UNCHANGED commits
    /\ UNCHANGED <<treeVars, metaVars, backendVars>>

Next == Move \/ Extract

Spec == Init /\ [][Next]_vars

QueryNext == HasSubtree \/ PrefixConflicts

\* The existence test and the extract, both of the tree and the prefix the
\* caller started from.
ExtractQueryNext ==
    \/ ops = <<>> /\ last = "none" /\ HasSubtree
    \/ ops = <<>> /\ last = "none" /\ Extract

SpecExtractQuery == Init /\ [][ExtractQueryNext]_vars

SpecQuery == Init /\ [][QueryNext]_vars

FilterNext == NewCommit \/ Filter \/ FilterFails

SpecFilter == FilterInit /\ [][FilterNext]_vars

(***************************************************************************)
(* Text.  The trailer keys are written as one letter each: no other        *)
(* letter of the model's alphabet spells them.                             *)
(***************************************************************************)
KeyDir == "git-subtree-dir"
KeyMainline == "git-subtree-mainline"
KeySplit == "git-subtree-split"
KeySignedOff == "Signed-off-by"

Whitespace == {" ", "\n"}

\* HexDigits[n + 1] is the digit of n.
HexDigits == <<"0", "1", "2", "3", "4", "5", "6", "7", "8", "9",
               "a", "b", "c", "d", "e", "f">>
UpperHexDigits == <<"A", "B", "C", "D", "E", "F">>

\* The letters the key of a trailer is made of: [a-zA-Z0-9-].
KeyChars ==
    {HexDigits[i] : i \in 1..16} \cup {UpperHexDigits[i] : i \in 1..6}
        \cup {"g", "m", "-", KeyDir, KeyMainline, KeySplit, KeySignedOff}

\* str::trim_end
RECURSIVE trim_end(_)
trim_end(s) ==
    IF Len(s) > 0 /\ s[Len(s)] \in Whitespace
    THEN trim_end(SubSeq(s, 1, Len(s) - 1))
    ELSE s

\* str::trim_start_matches(' ')
RECURSIVE SkipSpaces(_)
SkipSpaces(s) == IF Len(s) > 0 /\ Head(s) = " " THEN SkipSpaces(Tail(s)) ELSE s

ends_with(s, c) == Len(s) > 0 /\ s[Len(s)] = c

\* The text split at every newline.
RECURSIVE SplitNewline(_, _)
SplitNewline(s, piece) ==
    IF Len(s) = 0 THEN <<piece>>
    ELSE IF Head(s) = "\n" THEN <<piece>> \o SplitNewline(Tail(s), <<>>)
    ELSE SplitNewline(Tail(s), Append(piece, Head(s)))

\* str::lines: the lines of the text; a final newline starts no line.
lines(s) ==
    LET pieces == SplitNewline(s, <<>>)
    IN  IF Len(pieces[Len(pieces)]) = 0
        THEN SubSeq(pieces, 1, Len(pieces) - 1)
        ELSE pieces

\* [String]::join
RECURSIVE join(_, _)
join(parts, sep) ==
    IF Len(parts) = 0 THEN <<>>
    ELSE IF Len(parts) = 1 THEN parts[1]
    ELSE parts[1] \o sep \o join(Tail(parts), sep)

Reverse(q) == [i \in 1..Len(q) |-> q[Len(q) + 1 - i]]

None == [some |-> FALSE, v |-> <<>>]
Some(x) == [some |-> TRUE, v |-> x]

(***************************************************************************)
(* Commit ids (crate::backend::CommitId, crate::hex_util): a commit id is  *)
(* a sequence of bytes.                                                    *)
(***************************************************************************)
\* ObjectId::hex: two lower-case digits per byte.
RECURSIVE hex(_)
hex(id) ==
    IF Len(id) = 0 THEN <<>>
    ELSE <<HexDigits[(Head(id) \div 16) + 1], HexDigits[(Head(id) % 16) + 1]>> \o hex(Tail(id))

\* The value of a hexadecimal digit of either case, -1 for another letter.
hex_value(c) ==
    IF \E i \in 1..16 : HexDigits[i] = c
    THEN (CHOOSE i \in 1..16 : HexDigits[i] = c) - 1
    ELSE IF \E i \in 1..6 : UpperHexDigits[i] = c
         THEN (CHOOSE i \in 1..6 : UpperHexDigits[i] = c) + 9
         ELSE -1

\* CommitId::try_from_hex: none for an odd number of digits or a letter that
\* is no digit.
try_from_hex(s) ==
    IF Len(s) % 2 # 0 \/ \E i \in 1..Len(s) : hex_value(s[i]) = -1
    THEN None
    ELSE Some([i \in 1..(Len(s) \div 2) |->
                  16 * hex_value(s[2 * i - 1]) + hex_value(s[2 * i])])

(***************************************************************************)
(* crate::trailer.  The trailers of a description are the key-value lines  *)
(* of its last paragraph, which a blank line must separate from the rest:  *)
(* a description of one paragraph has none.  The lines are read from the   *)
(* last to the first up to that blank line.  A line that starts with a     *)
(* space continues the value of the trailer above it.  When a line of the  *)
(* paragraph is no trailer, the paragraph counts only if it holds a        *)
(* Signed-off-by trailer.                                                  *)
(***************************************************************************)
\* The line against ^([a-zA-Z0-9-]+) *: *(.*)$
TrailerMatch(line) ==
    LET keyLen == IF \E n \in 1..Len(line) : line[n] \notin KeyChars
                  THEN (CHOOSE n \in 1..Len(line) :
                           /\ line[n] \notin KeyChars
                           /\ \A k \in 1..(n - 1) : line[k] \in KeyChars) - 1
                  ELSE Len(line)
        afterKey == SkipSpaces(SubSeq(line, keyLen + 1, Len(line)))
    IN  IF keyLen > 0 /\ Len(afterKey) > 0 /\ Head(afterKey) = ":"
        THEN [matched |-> TRUE, key |-> SubSeq(line, 1, keyLen),
              value |-> SkipSpaces(Tail(afterKey))]
        ELSE [matched |-> FALSE, key |-> <<>>, value |-> <<>>]

\* parse_trailers_impl on the lines ls, the line i next: st holds the
\* trailers found (first in the text first), the continuation lines read
\* since the last trailer, and what was seen.
RECURSIVE ScanTrailers(_, _, _)
ScanTrailers(ls, i, st) ==
    IF i = 0 THEN st
    ELSE LET line == ls[i]
             m == TrailerMatch(line)
         IN  IF Len(line) > 0 /\ Head(line) = " "
             THEN ScanTrailers(ls, i - 1, [st EXCEPT !.multi = Append(@, line)])
             ELSE IF m.matched
             THEN LET pushed == Append(st.multi, m.value)
                      trimmed == [pushed EXCEPT ![1] = trim_end(@)]
                      value == join(Reverse(trimmed), <<"\n">>)
                  IN  ScanTrailers(ls, i - 1,
                          [st EXCEPT !.trailers = <<[key |-> m.key, value |-> value]>> \o @,
                                     !.multi = <<>>,
                                     !.git = @ \/ (m.key = <<KeySignedOff>>)])
             ELSE IF Len(trim_end(line)) = 0
             THEN [st EXCEPT !.blank = TRUE]
             ELSE ScanTrailers(ls, i - 1, [st EXCEPT !.multi = <<>>, !.non = TRUE])

parse_description_trailers(body) ==
    LET ls == lines(trim_end(body))
        r == ScanTrailers(ls, Len(ls),
                 [trailers |-> <<>>, multi |-> <<>>, blank |-> FALSE,
                  git |-> FALSE, non |-> FALSE])
    IN  IF ~r.blank THEN <<>>
        ELSE IF r.non /\ ~r.git THEN <<>>
        ELSE r.trailers

(***************************************************************************)
(* metadata.rs                                                             *)
(***************************************************************************)
default == [subtree_dir |-> None, mainline_commit |-> None, split_commit |-> None]

is_empty(m) ==
    ~m.subtree_dir.some /\ ~m.mainline_commit.some /\ ~m.split_commit.some

\* The loop of SubtreeMetadata::parse over the trailers, first to last.
RECURSIVE ParseLoop(_, _)
ParseLoop(trailers, m) ==
    IF Len(trailers) = 0 THEN m
    ELSE LET trailer == Head(trailers)
             path == from_internal_string(trailer.value)
             id == try_from_hex(trailer.value)
         IN  ParseLoop(Tail(trailers),
                 IF trailer.key = <<KeyDir>> /\ path.ok
                 THEN [m EXCEPT !.subtree_dir = Some(path.path)]
                 ELSE IF trailer.key = <<KeyMainline>> /\ id.some
                 THEN [m EXCEPT !.mainline_commit = id]
                 ELSE IF trailer.key = <<KeySplit>> /\ id.some
                 THEN [m EXCEPT !.split_commit = id]
                 ELSE m)

\* A parse that gives up, and returns no field, when a recognized trailer
\* has a malformed value.
parse_all_or_nothing(description) ==
    LET trailers == parse_description_trailers(description)
        malformed(t) ==
            \/ t.key = <<KeyDir>> /\ ~from_internal_string(t.value).ok
            \/ t.key \in {<<KeyMainline>>, <<KeySplit>>} /\ ~try_from_hex(t.value).some
    IN  IF \E i \in 1..Len(trailers) : malformed(trailers[i])
        THEN default
        ELSE ParseLoop(trailers, default)

\* A parse that keeps the first well-formed value of a key.
parse_first_wins(description) ==
    ParseLoop(Reverse(parse_description_trailers(description)), default)

parse(description) == ParseLoop(parse_description_trailers(description), default)

\* A formatter that writes the fields in the opposite order.
format_trailers_split_first(m) ==
    LET dir == IF m.subtree_dir.some
               THEN <<<<KeyDir, ":", " ">> \o as_internal_file_string(m.subtree_dir.v)>>
               ELSE <<>>
        mainline == IF m.mainline_commit.some
                    THEN <<<<KeyMainline, ":", " ">> \o hex(m.mainline_commit.v)>>
                    ELSE <<>>
        split == IF m.split_commit.some
                 THEN <<<<KeySplit, ":", " ">> \o hex(m.split_commit.v)>>
                 ELSE <<>>
        ls == split \o mainline \o dir
    IN  IF Len(ls) = 0 THEN <<>> ELSE join(ls, <<"\n">>) \o <<"\n">>

format_trailers(m) ==
    LET dir == IF m.subtree_dir.some
               THEN <<<<KeyDir, ":", " ">> \o as_internal_file_string(m.subtree_dir.v)>>
               ELSE <<>>
        mainline == IF m.mainline_commit.some
                    THEN <<<<KeyMainline, ":", " ">> \o hex(m.mainline_commit.v)>>
                    ELSE <<>>
        split == IF m.split_commit.some
                 THEN <<<<KeySplit, ":", " ">> \o hex(m.split_commit.v)>>
                 ELSE <<>>
        ls == dir \o mainline \o split
    IN  IF Len(ls) = 0 THEN <<>> ELSE join(ls, <<"\n">>) \o <<"\n">>

\* An append that leaves alone a description that ends with the trailers
\* already.
add_to_description_once(m, description) ==
    LET trailers == format_trailers(m)
        trimmed == trim_end(description)
    IN  IF Len(trailers) = 0 THEN description
        ELSE IF /\ Len(description) >= Len(trailers)
                /\ SubSeq(description, Len(description) - Len(trailers) + 1,
                          Len(description)) = trailers
        THEN description
        ELSE IF Len(trimmed) = 0 THEN trailers
        ELSE trimmed \o <<"\n", "\n">> \o trailers

\* An append that keeps the trailing whitespace of the description.
add_to_description_untrimmed(m, description) ==
    LET trailers == format_trailers(m)
    IN  IF Len(trailers) = 0 THEN description
        ELSE IF Len(description) = 0 THEN trailers
        ELSE description \o <<"\n", "\n">> \o trailers

add_to_description(m, description) ==
    LET trailers == format_trailers(m)
        trimmed == trim_end(description)
    IN  IF Len(trailers) = 0 THEN description
        ELSE IF Len(trimmed) = 0 THEN trailers
        ELSE IF ends_with(trimmed, "\n") THEN trimmed \o <<"\n">> \o trailers
        ELSE trimmed \o <<"\n", "\n">> \o trailers

\* A test that is content with any trailer.
has_metadata_any_trailer(description) ==
    Len(parse_description_trailers(description)) > 0

\* A test that looks for the directory key only.
has_metadata_dir_only(description) ==
    LET trailers == parse_description_trailers(description)
    IN  \E i \in 1..Len(trailers) : <<KeyDir>> = trailers[i].key

has_metadata(description) ==
    LET trailers == parse_description_trailers(description)
    IN  \E i \in 1..Len(trailers) :
            \/ <<KeyDir>> = trailers[i].key
            \/ <<KeyMainline>> = trailers[i].key
            \/ <<KeySplit>> = trailers[i].key

(***************************************************************************)
(* The calls of the codec on a description.                                *)
(***************************************************************************)
DescLines ==
    { <<>>,
      <<"m">>,
      <<KeyDir, ":", " ", "b">>,
      <<KeyDir, ":", " ", "/", "b">>,
      <<KeyMainline, ":", " ", "0", "F">>,
      <<KeySplit, ":", " ", "0">>,
      <<KeySignedOff, ":", " ", "m">> }

Descriptions ==
    LET texts == UNION {[1..k -> DescLines] : k \in 0..MaxLines}
    IN  {join(ls, <<"\n">>) \o end : ls \in texts, end \in {<<>>, <<"\n">>}}

Metadatas ==
    [subtree_dir : {None, Some(<<<<"a">>>>), Some(<<<<"a">>, <<"b">>>>)},
     mainline_commit : {None, Some(<<240>>)},
     split_commit : {None, Some(<<10>>)}]

NotParsed == [some |-> FALSE]
NotFormatted == [some |-> FALSE]
NotAsked == [some |-> FALSE]

MetaInit ==
    /\ descs \in {<<d>> : d \in Descriptions}
    /\ metadata \in Metadatas
    /\ parsed = NotParsed
    /\ formatted = NotFormatted
    /\ has = NotAsked
    /\ commits = <<>>
    /\ filtered = [status |-> "none"]
    /\ source = empty_tree
    /\ prefix = root
    /\ tree = empty_tree
    /\ ops = <<>>
    /\ last = "none"
    /\ err = "none"
    /\ writes = 0
    /\ answer = NoAnswer
    /\ store_git = FALSE
    /\ backend = NoBackend
    /\ supported = [some |-> FALSE]
    /\ temp_remote = "none"
    /\ local_refs = NoRefs
    /\ remote = RemoteRepositories
    /\ calls = [c \in Callers |-> IdleCall]

AddToDescription ==
    /\ Len(descs) <= MaxStamps
    /\ descs' = Append(descs, add_to_description(metadata, descs[Len(descs)]))
    /\ parsed' = NotParsed
    /\ has' = NotAsked
    /\ UNCHANGED <<metadata, formatted, treeVars, filterVars, backendVars>>

\* One parse of the description as it stands; its result stays until the
\* description changes.
Parse ==
    /\ parsed = NotParsed
    /\ formatted = NotFormatted
    /\ parsed' = [some |-> TRUE, value |-> parse(descs[Len(descs)])]
    /\ UNCHANGED <<metadata, descs, formatted, has, treeVars, filterVars, backendVars>>

\* One call, made by a caller that asks nothing else.
FormatTrailers ==
    /\ formatted = NotFormatted
    /\ parsed = NotParsed
    /\ has = NotAsked
    /\ formatted' = [some |-> TRUE, value |-> format_trailers(metadata)]
    /\ UNCHANGED <<metadata, descs, parsed, has, treeVars, filterVars, backendVars>>

\* One test of the description as it stands.
HasMetadata ==
    /\ has = NotAsked
    /\ formatted = NotFormatted
    /\ has' = [some |-> TRUE, value |-> has_metadata(descs[Len(descs)])]
    /\ UNCHANGED <<metadata, descs, parsed, formatted, treeVars, filterVars, backendVars>>

MetaNext == AddToDescription \/ Parse

SpecMeta == MetaInit /\ [][MetaNext]_vars

\* The three calls that read the metadata or the description and change
\* neither.
CodecNext == FormatTrailers \/ HasMetadata \/ Parse

SpecCodec == MetaInit /\ [][CodecNext]_vars

(***************************************************************************)
(* Descriptions that repeat a key: a message, a blank line and up to       *)
(* MaxTrailers trailer lines, each a directory or a split commit with a    *)
(* well-formed or a malformed value.                                       *)
(***************************************************************************)
RepeatLines ==
    { <<KeyDir, ":", " ", "a">>,
      <<KeyDir, ":", " ", "b">>,
      <<KeyDir, ":", " ", "/", "b">>,
      <<KeySplit, ":", " ", "0", "F">>,
      <<KeySplit, ":", " ", "1", "0">>,
      <<KeySplit, ":", " ", "0">> }

RepeatedDescriptions ==
    {<<"m", "\n", "\n">> \o join(ls, <<"\n">>) \o <<"\n">> :
        ls \in UNION {[1..k -> RepeatLines] : k \in 1..MaxTrailers}}

RepeatInit ==
    /\ descs \in {<<d>> : d \in RepeatedDescriptions}
    /\ metadata = default
    /\ parsed = NotParsed
    /\ formatted = NotFormatted
    /\ has = NotAsked
    /\ commits = <<>>
    /\ filtered = [status |-> "none"]
    /\ source = empty_tree
    /\ prefix = root
    /\ tree = empty_tree
    /\ ops = <<>>
    /\ last = "none"
    /\ err = "none"
    /\ writes = 0
    /\ answer = NoAnswer
    /\ store_git = FALSE
    /\ backend = NoBackend
    /\ supported = [some |-> FALSE]
    /\ temp_remote = "none"
    /\ local_refs = NoRefs
    /\ remote = RemoteRepositories
    /\ calls = [c \in Callers |-> IdleCall]

RepeatNext == Parse \/ HasMetadata

SpecRepeat == RepeatInit /\ [][RepeatNext]_vars

(***************************************************************************)
(* backend.rs, git_backend.rs: the remote operations.  The Git subprocess  *)
(* is the environment: a command may fail to start, may exit with a        *)
(* failure status, and may succeed only when Git could do what it is asked.*)
(***************************************************************************)
SUBTREE_TEMP_REMOTE == "jj-subtree-temp"

SUBTREE_FETCH_REF_NAMESPACE == <<"refs", "/", "jj", "/", "subtree-fetch">>

RemoteNotSupported == [kind |-> "RemoteNotSupported"]
FetchFailed(repository, message) ==
    [kind |-> "FetchFailed", repository |-> repository, message |-> message]
PushFailed(repository, message) ==
    [kind |-> "PushFailed", repository |-> repository, message |-> message]
RefNotFound(name) == [kind |-> "RefNotFound", ref |-> name]

Success(v) == [ok |-> TRUE, value |-> v]
Failure(e) == [ok |-> FALSE, error |-> e]

\* The ref names and the commit the callers pass.
RemoteRefs == {<<"main">>, <<"refs", "/", "heads", "/", "gone">>}

LocalCommits == {<<205>>}

\* A factory that takes every store for a Git store.
create_subtree_backend_always_git(git) == "GitSubtreeBackend"

create_subtree_backend(git) ==
    IF git THEN "GitSubtreeBackend" ELSE "LocalSubtreeBackend"

supports_remote_operations(b) ==
    IF b = "GitSubtreeBackend" THEN TRUE ELSE FALSE

\* str::starts_with
str_starts_with(s, pattern) ==
    /\ Len(pattern) <= Len(s)
    /\ SubSeq(s, 1, Len(pattern)) = pattern

\* The refspec of the fetch: the ref of the remote, qualified, to the ref of
\* the reserved namespace.
fetch_refspec(remote_ref) ==
    LET fetch_ref == IF str_starts_with(remote_ref, <<"refs", "/">>)
                     THEN remote_ref
                     ELSE <<"refs", "/", "heads", "/">> \o remote_ref
        local_ref == SUBTREE_FETCH_REF_NAMESPACE \o <<"/">> \o remote_ref
    IN  fetch_ref \o <<":">> \o local_ref

local_ref_of(remote_ref) == SUBTREE_FETCH_REF_NAMESPACE \o <<"/">> \o remote_ref

\* A push refspec that is forced whatever the caller asked for.
push_refspec_always_forced(local_commit, remote_ref, force) ==
    LET qualified_name == IF str_starts_with(remote_ref, <<"refs", "/">>)
                          THEN remote_ref
                          ELSE <<"refs", "/", "heads", "/">> \o remote_ref
    IN  <<"+">> \o hex(local_commit) \o <<":">> \o qualified_name

\* The refspec of the push: the commit to the ref of the remote, qualified,
\* with "+" before it for a forced push.
push_refspec(local_commit, remote_ref, force) ==
    LET qualified_name == IF str_starts_with(remote_ref, <<"refs", "/">>)
                          THEN remote_ref
                          ELSE <<"refs", "/", "heads", "/">> \o remote_ref
    IN  IF force
        THEN <<"+">> \o hex(local_commit) \o <<":">> \o qualified_name
        ELSE hex(local_commit) \o <<":">> \o qualified_name

(***************************************************************************)
(* What a subprocess gave: it did not start, or it ran and left a status   *)
(* and its standard output.                                                *)
(***************************************************************************)
NotStarted == [started |-> FALSE, success |-> FALSE, stdout |-> <<>>]
Exited(success, stdout) == [started |-> TRUE, success |-> success, stdout |-> stdout]

\* run_git_command: no command is made, and none run, for a store without
\* Git; a command that does not start is a FetchFailed naming the reserved
\* remote.
run_git_command(git, out) ==
    IF ~git THEN Failure(RemoteNotSupported)
    ELSE IF ~out.started
    THEN Failure(FetchFailed(SUBTREE_TEMP_REMOTE, "Failed to execute git command"))
    ELSE Success(out)

\* A setup that goes on although the remote could not be registered.
setup_temp_remote_add_unchecked(repository, runs) == Success("unit")

\* A setup that gives up when the stale registration could not be removed.
setup_temp_remote_remove_checked(repository, runs) ==
    LET remove == runs[1].r
        add == runs[2].r
    IN  IF ~remove.ok THEN Failure(remove.error)
        ELSE IF ~remove.value.success
        THEN Failure(FetchFailed(repository, "Failed to remove temporary remote"))
        ELSE IF ~add.ok THEN Failure(add.error)
        ELSE IF ~add.value.success
        THEN Failure(FetchFailed(repository, "Failed to create temporary remote"))
        ELSE Success("unit")

\* setup_temp_remote, given the runs of "remote remove" and "remote add".
setup_temp_remote(repository, runs) ==
    LET add == runs[2].r
    IN  IF ~add.ok THEN Failure(add.error)
        ELSE IF ~add.value.success
        THEN Failure(FetchFailed(repository, "Failed to create temporary remote"))
        ELSE Success("unit")

\* fetch_from_temp_remote, given the runs made so far of fetch, rev-parse
\* and update-ref -d: the command to run next, or the result.
fetch_from_temp_remote(remote_ref, runs) ==
    IF Len(runs) = 0 THEN [next |-> "fetch"]
    ELSE IF ~runs[1].r.ok THEN [next |-> "return", result |-> Failure(runs[1].r.error)]
    ELSE IF ~runs[1].r.value.success
    THEN [next |-> "return", result |-> Failure(FetchFailed(SUBTREE_TEMP_REMOTE, "stderr"))]
    ELSE IF Len(runs) = 1 THEN [next |-> "rev-parse"]
    ELSE IF ~runs[2].r.ok THEN [next |-> "return", result |-> Failure(runs[2].r.error)]
    ELSE IF ~runs[2].r.value.success
    THEN [next |-> "return", result |-> Failure(RefNotFound(remote_ref))]
    ELSE IF ~try_from_hex(trim_end(runs[2].r.value.stdout)).some
    THEN [next |-> "return",
          result |-> Failure(FetchFailed(SUBTREE_TEMP_REMOTE, "Invalid commit hash"))]
    ELSE IF Len(runs) = 2 THEN [next |-> "update-ref"]
    ELSE [next |-> "return",
          result |-> Success(try_from_hex(trim_end(runs[2].r.value.stdout)).v)]

\* A push that looks for the rejection marker whatever the exit status.
push_to_temp_remote_marker_first(runs) ==
    IF Len(runs) = 0 THEN [next |-> "push"]
    ELSE IF ~runs[1].r.ok THEN [next |-> "return", result |-> Failure(runs[1].r.error)]
    ELSE IF runs[1].r.value.stdout = <<"![rejected]">>
    THEN [next |-> "return",
          result |-> Failure(PushFailed(SUBTREE_TEMP_REMOTE, "Push rejected"))]
    ELSE IF ~runs[1].r.value.success
    THEN [next |-> "return",
          result |-> Failure(PushFailed(SUBTREE_TEMP_REMOTE, "stderr"))]
    ELSE [next |-> "return", result |-> Success("unit")]

\* push_to_temp_remote, given the run of push, if made.
push_to_temp_remote(runs) ==
    IF Len(runs) = 0 THEN [next |-> "push"]
    ELSE IF ~runs[1].r.ok THEN [next |-> "return", result |-> Failure(runs[1].r.error)]
    ELSE IF ~runs[1].r.value.success
    THEN IF runs[1].r.value.stdout = <<"![rejected]">>
         THEN [next |-> "return",
               result |-> Failure(PushFailed(SUBTREE_TEMP_REMOTE, "Push rejected"))]
         ELSE [next |-> "return",
               result |-> Failure(PushFailed(SUBTREE_TEMP_REMOTE, "stderr"))]
    ELSE [next |-> "return", result |-> Success("unit")]

\* An end of the call that gives the error of the cleanup when it has one.
fetch_impl_cleanup_checked(result, cleaned) ==
    IF ~cleaned[1].r.ok THEN Failure(cleaned[1].r.error)
    ELSE IF ~cleaned[1].r.value.success
    THEN Failure(FetchFailed(SUBTREE_TEMP_REMOTE, "stderr"))
    ELSE result

\* The end of fetch_impl and of push_impl: the result of the attempt is
\* returned, the run of the cleanup is dropped.
fetch_impl(result, cleaned) == result

(***************************************************************************)
(* Git.  Each operator gives the outcomes a command can have in the state  *)
(* of the repository: what the subprocess gave and what it left behind.    *)
(***************************************************************************)
\* The text before the first ":" and the text after it.
SplitRefspec(refspec) ==
    LET k == CHOOSE k \in 1..Len(refspec) :
                 refspec[k] = ":" /\ \A j \in 1..(k - 1) : refspec[j] # ":"
        src == SubSeq(refspec, 1, k - 1)
    IN  [src |-> IF Len(src) > 0 /\ Head(src) = "+" THEN Tail(src) ELSE src,
         dst |-> SubSeq(refspec, k + 1, Len(refspec)),
         force |-> Len(src) > 0 /\ Head(src) = "+"]

\* git remote remove jj-subtree-temp
GitRemoteRemove(registered) ==
    {[out |-> NotStarted, temp_remote |-> registered],
     [out |-> Exited(FALSE, <<>>), temp_remote |-> registered]}
    \cup (IF registered # "none"
          THEN {[out |-> Exited(TRUE, <<>>), temp_remote |-> "none"]}
          ELSE {})

\* git remote add jj-subtree-temp <repository>
GitRemoteAdd(registered, repository) ==
    {[out |-> NotStarted, temp_remote |-> registered],
     [out |-> Exited(FALSE, <<>>), temp_remote |-> registered]}
    \cup (IF registered = "none"
          THEN {[out |-> Exited(TRUE, <<>>), temp_remote |-> repository]}
          ELSE {})

\* git fetch --no-write-fetch-head -- jj-subtree-temp <refspec>
GitFetch(registered, repos, refs, refspec) ==
    LET spec == SplitRefspec(refspec)
    IN  {[out |-> NotStarted, local_refs |-> refs],
         [out |-> Exited(FALSE, <<>>), local_refs |-> refs]}
        \cup (IF registered # "none" /\ spec.src \in DOMAIN repos[registered]
              THEN {[out |-> Exited(TRUE, <<>>),
                     local_refs |-> (spec.dst :> repos[registered][spec.src]) @@ refs]}
              ELSE {})

\* git rev-parse <ref>: the id of the ref in hexadecimal and a newline; a
\* Git that answers something else is left possible.
GitRevParse(refs, name) ==
    {NotStarted, Exited(FALSE, <<>>), Exited(TRUE, <<"z", "\n">>)}
    \cup (IF name \in DOMAIN refs
          THEN {Exited(TRUE, hex(refs[name]) \o <<"\n">>)}
          ELSE {})

\* git update-ref -d <ref>
GitUpdateRef(refs, name) ==
    {[out |-> NotStarted, local_refs |-> refs],
     [out |-> Exited(FALSE, <<>>), local_refs |-> refs],
     [out |-> Exited(TRUE, <<>>),
      local_refs |-> [n \in (DOMAIN refs) \ {name} |-> refs[n]]]}

\* git push --porcelain -- jj-subtree-temp <refspec>: a push that is not
\* forced is rejected when the ref of the remote would lose commits.  The
\* standard output names the location of the remote ("To <location>"), a
\* text the caller chose, so the text of the marker can also stand in the
\* output of a push that succeeded.
GitPush(registered, repos, refspec) ==
    LET spec == SplitRefspec(refspec)
        commit == try_from_hex(spec.src).v
    IN  {[out |-> NotStarted, remote |-> repos],
         [out |-> Exited(FALSE, <<>>), remote |-> repos]}
        \cup (IF registered # "none"
              THEN {[out |-> Exited(TRUE, stdout),
                     remote |-> [repos EXCEPT ![registered] = (spec.dst :> commit) @@ @]] :
                        stdout \in {<<>>, <<"![rejected]">>}}
                   \cup (IF spec.dst \in DOMAIN repos[registered] /\ ~spec.force
                         THEN {[out |-> Exited(FALSE, <<"![rejected]">>), remote |-> repos]}
                         ELSE {})
              ELSE {})

(***************************************************************************)
(* The calls on the backend.                                               *)
(***************************************************************************)
BackendInit ==
    /\ store_git \in BOOLEAN
    /\ backend = NoBackend
    /\ supported = [some |-> FALSE]
    /\ temp_remote = "none"
    /\ local_refs = NoRefs
    /\ remote = RemoteRepositories
    /\ calls = [c \in Callers |-> IdleCall]
    /\ source = empty_tree
    /\ prefix = root
    /\ tree = empty_tree
    /\ ops = <<>>
    /\ last = "none"
    /\ err = "none"
    /\ writes = 0
    /\ answer = NoAnswer
    /\ commits = <<>>
    /\ filtered = NotFiltered
    /\ metadata = default
    /\ descs = <<>>
    /\ parsed = NotParsed
    /\ formatted = NotFormatted
    /\ has = NotAsked

CreateSubtreeBackend ==
    /\ backend = NoBackend
    /\ backend' = [kind |-> create_subtree_backend(store_git),
                   made |-> "create_subtree_backend"]
    /\ UNCHANGED <<store_git, supported, temp_remote, local_refs, remote, calls>>
    /\ UNCHANGED <<treeVars, filterVars, metaVars>>

\* GitSubtreeBackend::new, on any store.
GitSubtreeBackendNew ==
    /\ backend = NoBackend
    /\ backend' = [kind |-> "GitSubtreeBackend", made |-> "new"]
    /\ UNCHANGED <<store_git, supported, temp_remote, local_refs, remote, calls>>
    /\ UNCHANGED <<treeVars, filterVars, metaVars>>

\* LocalSubtreeBackend::new, on any store.
LocalSubtreeBackendNew ==
    /\ backend = NoBackend
    /\ backend' = [kind |-> "LocalSubtreeBackend", made |-> "new"]
    /\ UNCHANGED <<store_git, supported, temp_remote, local_refs, remote, calls>>
    /\ UNCHANGED <<treeVars, filterVars, metaVars>>

SupportsRemoteOperations ==
    /\ backend # NoBackend
    /\ supported' = [some |-> TRUE, value |-> supports_remote_operations(backend.kind)]
    /\ UNCHANGED <<store_git, backend, temp_remote, local_refs, remote, calls>>
    /\ UNCHANGED <<treeVars, filterVars, metaVars>>

\* The caller's call is over, or not made yet.
AtRest(c) == calls[c].pc \in {"idle", "done"}

\* fetch_remote: the local backend answers at once; the Git backend starts
\* fetch_impl.
FetchRemote(c) ==
    /\ backend # NoBackend
    /\ AtRest(c)
    /\ \E repository \in Repositories, remote_ref \in RemoteRefs :
           calls' = [calls EXCEPT ![c] =
               IF backend.kind = "LocalSubtreeBackend"
               THEN [IdleCall EXCEPT !.pc = "done", !.op = "fetch",
                                     !.repository = repository,
                                     !.remote_ref = remote_ref,
                                     !.returned = Failure(RemoteNotSupported)]
               ELSE [IdleCall EXCEPT !.pc = "setup_remove", !.op = "fetch",
                                     !.repository = repository,
                                     !.remote_ref = remote_ref]]
    /\ UNCHANGED <<store_git, backend, supported, temp_remote, local_refs, remote>>
    /\ UNCHANGED <<treeVars, filterVars, metaVars>>

\* push_remote: the local backend answers at once; the Git backend starts
\* push_impl.
PushRemote(c) ==
    /\ backend # NoBackend
    /\ AtRest(c)
    /\ \E repository \in Repositories, local_commit \in LocalCommits,
          remote_ref \in RemoteRefs, force \in BOOLEAN :
           calls' = [calls EXCEPT ![c] =
               IF backend.kind = "LocalSubtreeBackend"
               THEN [IdleCall EXCEPT !.pc = "done", !.op = "push",
                                     !.repository = repository,
                                     !.local_commit = local_commit,
                                     !.remote_ref = remote_ref,
                                     !.force = force,
                                     !.returned = Failure(RemoteNotSupported)]
               ELSE [IdleCall EXCEPT !.pc = "setup_remove", !.op = "push",
                                     !.repository = repository,
                                     !.local_commit = local_commit,
                                     !.remote_ref = remote_ref,
                                     !.force = force]]
    /\ UNCHANGED <<store_git, backend, supported, temp_remote, local_refs, remote>>
    /\ UNCHANGED <<treeVars, filterVars, metaVars>>

\* setup_temp_remote, first command: the stale registration is removed and
\* what the command gave is dropped.
SetupRemove(c) ==
    /\ calls[c].pc = "setup_remove"
    /\ \E o \in IF store_git THEN GitRemoteRemove(temp_remote)
                ELSE {[out |-> NotStarted, temp_remote |-> temp_remote]} :
           /\ temp_remote' = o.temp_remote
           /\ calls' = [calls EXCEPT
                  ![c].setup = Append(@, [cmd |-> "remote remove",
                                          arg |-> <<SUBTREE_TEMP_REMOTE>>,
                                          r |-> run_git_command(store_git, o.out)]),
                  ![c].pc = "setup_add"]
    /\ UNCHANGED <<store_git, backend, supported, local_refs, remote>>
    /\ UNCHANGED <<treeVars, filterVars, metaVars>>

\* setup_temp_remote, second command: the remote is registered, or the call
\* returns the error of setup_temp_remote.
SetupAdd(c) ==
    /\ calls[c].pc = "setup_add"
    /\ \E o \in IF store_git THEN GitRemoteAdd(temp_remote, calls[c].repository)
                ELSE {[out |-> NotStarted, temp_remote |-> temp_remote]} :
           LET runs == Append(calls[c].setup,
                              [cmd |-> "remote add",
                               arg |-> <<SUBTREE_TEMP_REMOTE, calls[c].repository>>,
                               r |-> run_git_command(store_git, o.out)])
               done == setup_temp_remote(calls[c].repository, runs)
           IN  /\ temp_remote' = o.temp_remote
               /\ calls' = [calls EXCEPT
                      ![c].setup = runs,
                      ![c].pc = IF done.ok THEN "attempt" ELSE "done",
                      ![c].returned = IF done.ok THEN @ ELSE done]
    /\ UNCHANGED <<store_git, backend, supported, local_refs, remote>>
    /\ UNCHANGED <<treeVars, filterVars, metaVars>>

\* A fetch_impl that removes the remote right after the fetch command and
\* leaves the fetched ref unresolved.
AfterFetchRun_remove_after_fetch(c, run) ==
    LET runs == Append(calls[c].attempt, run)
        step == fetch_from_temp_remote(calls[c].remote_ref, runs)
    IN  [calls EXCEPT
            ![c].attempt = runs,
            ![c].pc = "cleanup",
            ![c].result = IF step.next = "return" THEN step.result ELSE @]

\* The call after one more run of fetch_from_temp_remote.
AfterFetchRun(c, run) ==
    LET runs == Append(calls[c].attempt, run)
        step == fetch_from_temp_remote(calls[c].remote_ref, runs)
    IN  [calls EXCEPT
            ![c].attempt = runs,
            ![c].pc = IF step.next = "return" THEN "cleanup" ELSE "attempt",
            ![c].result = IF step.next = "return" THEN step.result ELSE @]

\* The fetch command; "at" keeps what jj-subtree-temp pointed at when the
\* command ran.
Fetch(c) ==
    /\ calls[c].pc = "attempt"
    /\ calls[c].op = "fetch"
    /\ fetch_from_temp_remote(calls[c].remote_ref, calls[c].attempt).next = "fetch"
    /\ \E o \in IF store_git
                THEN GitFetch(temp_remote, remote, local_refs,
                              fetch_refspec(calls[c].remote_ref))
                ELSE {[out |-> NotStarted, local_refs |-> local_refs]} :
           /\ local_refs' = o.local_refs
           /\ calls' = AfterFetchRun(c, [cmd |-> "fetch",
                                         arg |-> fetch_refspec(calls[c].remote_ref),
                                         at |-> temp_remote,
                                         r |-> run_git_command(store_git, o.out)])
    /\ UNCHANGED <<store_git, backend, supported, temp_remote, remote>>
    /\ UNCHANGED <<treeVars, filterVars, metaVars>>

RevParse(c) ==
    /\ calls[c].pc = "attempt"
    /\ calls[c].op = "fetch"
    /\ fetch_from_temp_remote(calls[c].remote_ref, calls[c].attempt).next = "rev-parse"
    /\ \E out \in IF store_git
                  THEN GitRevParse(local_refs, local_ref_of(calls[c].remote_ref))
                  ELSE {NotStarted} :
           calls' = AfterFetchRun(c, [cmd |-> "rev-parse",
                                      arg |-> local_ref_of(calls[c].remote_ref),
                                      r |-> run_git_command(store_git, out)])
    /\ UNCHANGED <<store_git, backend, supported, temp_remote, local_refs, remote>>
    /\ UNCHANGED <<treeVars, filterVars, metaVars>>

\* The reserved local ref is deleted and what the command gave is dropped.
UpdateRef(c) ==
    /\ calls[c].pc = "attempt"
    /\ calls[c].op = "fetch"
    /\ fetch_from_temp_remote(calls[c].remote_ref, calls[c].attempt).next = "update-ref"
    /\ \E o \in IF store_git
                THEN GitUpdateRef(local_refs, local_ref_of(calls[c].remote_ref))
                ELSE {[out |-> NotStarted, local_refs |-> local_refs]} :
           /\ local_refs' = o.local_refs
           /\ calls' = AfterFetchRun(c, [cmd |-> "update-ref -d",
                                         arg |-> local_ref_of(calls[c].remote_ref),
                                         r |-> run_git_command(store_git, o.out)])
    /\ UNCHANGED <<store_git, backend, supported, temp_remote, remote>>
    /\ UNCHANGED <<treeVars, filterVars, metaVars>>

Push(c) ==
    /\ calls[c].pc = "attempt"
    /\ calls[c].op = "push"
    /\ push_to_temp_remote(calls[c].attempt).next = "push"
    /\ LET refspec == push_refspec(calls[c].local_commit, calls[c].remote_ref,
                                   calls[c].force)
       IN  \E o \in IF store_git THEN GitPush(temp_remote, remote, refspec)
                    ELSE {[out |-> NotStarted, remote |-> remote]} :
               LET runs == Append(calls[c].attempt,
                                  [cmd |-> "push", arg |-> refspec,
                                   at |-> temp_remote,
                                   r |-> run_git_command(store_git, o.out)])
               IN  /\ remote' = o.remote
                   /\ calls' = [calls EXCEPT
                          ![c].attempt = runs,
                          ![c].pc = "cleanup",
                          ![c].result = push_to_temp_remote(runs).result]
    /\ UNCHANGED <<store_git, backend, supported, temp_remote, local_refs>>
    /\ UNCHANGED <<treeVars, filterVars, metaVars>>

\* cleanup_temp_remote, and the return of fetch_impl or push_impl.
Cleanup(c) ==
    /\ calls[c].pc = "cleanup"
    /\ \E o \in IF store_git THEN GitRemoteRemove(temp_remote)
                ELSE {[out |-> NotStarted, temp_remote |-> temp_remote]} :
           LET cleaned == <<[cmd |-> "remote remove",
                             arg |-> <<SUBTREE_TEMP_REMOTE>>,
                             r |-> run_git_command(store_git, o.out)]>>
           IN  /\ temp_remote' = o.temp_remote
               /\ calls' = [calls EXCEPT
                      ![c].cleanup = cleaned,
                      ![c].pc = "done",
                      ![c].returned = fetch_impl(calls[c].result, cleaned)]
    /\ UNCHANGED <<store_git, backend, supported, local_refs, remote>>
    /\ UNCHANGED <<treeVars, filterVars, metaVars>>

\* One caller: every call runs on its own.
BackendNext ==
    \/ CreateSubtreeBackend
    \/ GitSubtreeBackendNew
    \/ LocalSubtreeBackendNew
    \/ SupportsRemoteOperations
    \/ FetchRemote(1)
    \/ PushRemote(1)
    \/ SetupRemove(1)
    \/ SetupAdd(1)
    \/ Fetch(1)
    \/ RevParse(1)
    \/ UpdateRef(1)
    \/ Push(1)
    \/ Cleanup(1)

SpecBackend == BackendInit /\ [][BackendNext]_vars

(***************************************************************************)
(* Two callers on one backend of a Git store, each making one call: the    *)
(* futures of fetch_remote and push_remote are Send and the backend is     *)
(* Sync, so two calls can run on two threads and their Git commands        *)
(* interleave in any order.                                                *)
(***************************************************************************)
ConcurrentInit ==
    /\ store_git = TRUE
    /\ backend = NoBackend
    /\ supported = [some |-> FALSE]
    /\ temp_remote = "none"
    /\ local_refs = NoRefs
    /\ remote = RemoteRepositories
    /\ calls = [c \in Callers |-> IdleCall]
    /\ source = empty_tree
    /\ prefix = root
    /\ tree = empty_tree
    /\ ops = <<>>
    /\ last = "none"
    /\ err = "none"
    /\ writes = 0
    /\ answer = NoAnswer
    /\ commits = <<>>
    /\ filtered = NotFiltered
    /\ metadata = default
    /\ descs = <<>>
    /\ parsed = NotParsed
    /\ formatted = NotFormatted
    /\ has = NotAsked

ConcurrentNext ==
    \/ CreateSubtreeBackend
    \/ \E c \in Callers : calls[c].pc = "idle" /\ FetchRemote(c)
    \/ \E c \in Callers : calls[c].pc = "idle" /\ PushRemote(c)
    \/ \E c \in Callers : SetupRemove(c)
    \/ \E c \in Callers : SetupAdd(c)
    \/ \E c \in Callers : Fetch(c)
    \/ \E c \in Callers : RevParse(c)
    \/ \E c \in Callers : UpdateRef(c)
    \/ \E c \in Callers : Push(c)
    \/ \E c \in Callers : Cleanup(c)

SpecConcurrent == ConcurrentInit /\ [][ConcurrentNext]_vars

(***************************************************************************)
(* Properties of the tree algorithms.                                      *)
(***************************************************************************)

\* C1: extract_subtree(move_tree_to_prefix(T, P), P) succeeds for every tree
\* T and non-root prefix P and gives back exactly the path-to-value mapping
\* of T.
C1_RoundTrip ==
    (Len(ops) \in {1, 2} /\ ops[1] = "move" /\ last = "extract")
        => (ops = <<"move", "extract">> /\ err = "none" /\ tree = source)

C1_Witness ==
    /\ ops = <<"move", "extract">>
    /\ Len(prefix) = 2
    /\ Cardinality(DOMAIN source) = 2
    /\ \E p, q \in DOMAIN source : Len(p) = 2 /\ source[p] # source[q]

\* C2: move_tree_to_prefix(T, P) holds exactly the entries P/p -> v for the
\* entries p -> v of T: every value unchanged at its prefixed path, nothing
\* outside P, and nothing at all (has_subtree_at_prefix false) for an empty T.
C2_MovedExactly ==
    (ops = <<"move">>) =>
        /\ err = "none"
        /\ DOMAIN tree = {prefix \o p : p \in DOMAIN source}
        /\ \A p \in DOMAIN source : tree[prefix \o p] = source[p]
        /\ \A q \in DOMAIN tree : Len(q) > Len(prefix) /\ SubSeq(q, 1, Len(prefix)) = prefix
        /\ (source = empty_tree) =>
               (tree = empty_tree /\ ~has_subtree_at_prefix(tree, prefix))

C2_Witness ==
    /\ ops = <<"move">>
    /\ Len(prefix) = 2
    /\ \E p, q \in DOMAIN source : Len(p) = 2 /\ Len(q) = 1 /\ source[p] # source[q]

\* C3: extract_subtree(T, P) holds exactly the entries p' -> v for the
\* entries P/p' -> v of T with p' not the root; entries outside P are left
\* out and cause no error, and nothing under P gives the empty tree.
C3_ExtractedExactly ==
    /\ (last = "extract" /\ err # "none") => is_root(prefix)
    /\ (ops = <<"extract">>) =>
        LET under == {p \in DOMAIN source :
                         Len(p) > Len(prefix) /\ SubSeq(p, 1, Len(prefix)) = prefix}
        IN  /\ DOMAIN tree = {SubSeq(p, Len(prefix) + 1, Len(p)) : p \in under}
            /\ \A q \in DOMAIN tree : tree[q] = source[prefix \o q]
            /\ (under = {}) => (tree = empty_tree)

C3_Witness ==
    /\ ops = <<"extract">>
    /\ err = "none"
    /\ tree # empty_tree
    /\ \E p \in DOMAIN source : ~starts_with(p, prefix)

\* C4: with the root as prefix, move_tree_to_prefix and extract_subtree fail
\* with InvalidPrefix for every source tree, and no tree is built or written.
C4_RootPrefixRejected ==
    (is_root(prefix) /\ last # "none") =>
        (err = "InvalidPrefix" /\ writes = 0 /\ ops = <<>> /\ tree = source)

C4_Witness ==
    /\ is_root(prefix)
    /\ last = "move"
    /\ err = "InvalidPrefix"
    /\ source # empty_tree

\* C5: prefix_conflicts_with_file(T, P) returns a path exactly when P or a
\* non-root ancestor of P holds a file in T, and the path returned is such a
\* path; it returns none when they are all directories or absent.
C5_ConflictIffFileOnPath ==
    (answer.q = "conflict") =>
        LET onPath == {k \in 1..Len(prefix) : SubSeq(prefix, 1, k) \in DOMAIN tree}
        IN  /\ answer.value.some <=> (onPath # {})
            /\ answer.value.some =>
                   (\E k \in onPath : answer.value.path = SubSeq(prefix, 1, k))

C5_Witness ==
    /\ answer.q = "conflict"
    /\ answer.value.some
    /\ answer.value.path # prefix
    /\ Cardinality(DOMAIN tree) = 2

\* C6: has_subtree_at_prefix(T, P) is true exactly when T has an entry at P
\* or below it: true for every directory above a file, false where there is
\* no content.
C6_HasSubtreeIffEntryUnder ==
    (answer.q = "has") =>
        (answer.value <=>
            \E p \in DOMAIN tree :
                Len(p) >= Len(prefix) /\ \A i \in 1..Len(prefix) : p[i] = prefix[i])

C6_Witness ==
    /\ answer.q = "has"
    /\ answer.value
    /\ ~is_root(prefix)
    /\ prefix \notin DOMAIN tree
    /\ \E p \in DOMAIN tree : ~starts_with(p, prefix)

\* C30: for a prefix that is itself a file of the tree, extract_subtree
\* succeeds and gives the empty tree, while has_subtree_at_prefix answers
\* true for the same tree and prefix.
C30_FilePrefixExtractsNothing ==
    (prefix \in DOMAIN source) =>
        /\ (last = "extract") =>
               /\ err = "none"
               /\ ops = <<"extract">>
               /\ tree = empty_tree
               /\ writes = 1
        /\ (answer.q = "has") => answer.value

\* A tree of two files, the prefix one of them: the extract gave the empty
\* tree and the existence test true.
C30_Witness ==
    /\ prefix \in DOMAIN source
    /\ Cardinality(DOMAIN source) = 2
    /\ last = "extract"
    /\ err = "none"
    /\ tree = empty_tree
    /\ answer = [q |-> "has", value |-> TRUE]

(***************************************************************************)
(* Properties of the history filter.                                       *)
(***************************************************************************)

\* The value at a path of a tree, "absent" where the tree has no file there
\* and "tree" where it has files below.
ValueAt(t, p) ==
    IF p \in DOMAIN t THEN t[p]
    ELSE IF \E q \in DOMAIN t : Len(q) > Len(p) /\ SubSeq(q, 1, Len(p)) = p
         THEN "tree" ELSE "absent"

\* C7: a commit is flagged exactly when its tree differs, at a path equal to
\* or under the prefix, from the tree of its first parent, or from the empty
\* tree when it has no parent; other parents have no influence.
C7_FlagIffFirstParentDiff ==
    (filtered.status = "ok") =>
        \A i \in 1..Len(filtered.results) :
            LET c == commits[filtered.results[i][1]]
                base == IF c.parents = <<>> THEN empty_tree
                        ELSE commits[c.parents[1]].tree
                P == filtered.prefix
            IN  filtered.results[i][2] <=>
                    \E p \in (DOMAIN base) \cup (DOMAIN c.tree) :
                        /\ Len(p) >= Len(P) /\ SubSeq(p, 1, Len(P)) = P
                        /\ ValueAt(base, p) # ValueAt(c.tree, p)

\* A merge commit whose second parent differs from it under the prefix while
\* its first parent does not, so that it is not flagged.
C7_Witness ==
    /\ filtered.status = "ok"
    /\ \E i \in 1..Len(filtered.results) :
           LET c == commits[filtered.results[i][1]]
           IN  /\ Len(c.parents) = 2
               /\ ~filtered.results[i][2]
               /\ diff_stream(commits[c.parents[2]].tree, c.tree, filtered.prefix) # {}

\* C8: on success the list returned is as long as the input and its i-th
\* element carries the i-th input commit.
C8_SameOrderSameLength ==
    (filtered.status = "ok") =>
        /\ Len(filtered.results) = Len(filtered.input)
        /\ \A i \in 1..Len(filtered.input) : filtered.results[i][1] = filtered.input[i]

C8_Witness ==
    /\ filtered.status = "ok"
    /\ Len(filtered.input) = 2
    /\ filtered.input[1] > filtered.input[2]
    /\ ~filtered.results[1][2]
    /\ filtered.results[2][2]

(***************************************************************************)
(* Properties of the metadata codec.                                       *)
(***************************************************************************)

\* C9: for any description D and metadata M, parse(M.add_to_description(D))
\* has every field set in M set to the same value and every field unset in M
\* unset.
C9_ParseRecoversMetadata ==
    (parsed.some /\ Len(descs) = 2) =>
        /\ parsed.value.subtree_dir = metadata.subtree_dir
        /\ parsed.value.mainline_commit = metadata.mainline_commit
        /\ parsed.value.split_commit = metadata.split_commit

\* C10, as claimed: add_to_description applied twice gives what it gives
\* applied once.
C10_Idempotent ==
    (Len(descs) >= 3) => (descs[3] = descs[2])

\* C10, amended: a further add_to_description changes nothing only for
\* metadata with no field set; otherwise it trims the description it is given
\* and appends a blank line and the trailer block once more, so the result
\* differs.
C10_AppendsAgain ==
    \A i \in 2..(Len(descs) - 1) :
        IF is_empty(metadata)
        THEN descs[i + 1] = descs[i]
        ELSE /\ descs[i + 1] # descs[i]
             /\ descs[i + 1] =
                    trim_end(descs[i]) \o <<"\n", "\n">> \o format_trailers(metadata)

C10_Witness ==
    /\ Len(descs) = 3
    /\ ~is_empty(metadata)
    /\ Len(trim_end(descs[1])) > 0
    /\ Len(descs[3]) > Len(descs[2])

\* The description without the whitespace it ends with: the text up to its
\* last letter that is no whitespace.
Trimmed(d) ==
    LET ends == {k \in 1..Len(d) : d[k] \notin Whitespace}
    IN  SubSeq(d, 1, IF ends = {} THEN 0 ELSE CHOOSE k \in ends : \A j \in ends : j <= k)

\* C11: add_to_description returns the description unchanged when the
\* metadata has no field set; otherwise the description without its trailing
\* whitespace, then exactly one blank line, then the trailer block, or the
\* trailer block alone when nothing is left of the description.
C11_UnchangedOrTrimmedBlankLineBlock ==
    \A i \in 1..(Len(descs) - 1) :
        LET D == descs[i]
            R == descs[i + 1]
            T == Trimmed(D)
            block == format_trailers(metadata)
        IN  IF /\ ~metadata.subtree_dir.some
               /\ ~metadata.mainline_commit.some
               /\ ~metadata.split_commit.some
            THEN R = D
            ELSE IF T = <<>>
            THEN R = block
            ELSE /\ R = T \o <<"\n">> \o <<"\n">> \o block
                 /\ T[Len(T)] # "\n"
                 /\ block[1] # "\n"

C11_Witness ==
    /\ Len(descs) = 2
    /\ metadata.subtree_dir.some
    /\ Len(descs[1]) >= 3
    /\ descs[1][Len(descs[1])] = "\n"
    /\ descs[1][Len(descs[1]) - 1] = "\n"
    /\ Trimmed(descs[1]) # <<>>
    /\ Len(descs[2]) > Len(descs[1])

\* The keys of the fields that are set, in the order directory, mainline,
\* split, each with the text of its value.
SetFields(m) ==
    (IF m.subtree_dir.some
     THEN <<[key |-> KeyDir, text |-> as_internal_file_string(m.subtree_dir.v)]>>
     ELSE <<>>)
    \o (IF m.mainline_commit.some
        THEN <<[key |-> KeyMainline, text |-> hex(m.mainline_commit.v)]>>
        ELSE <<>>)
    \o (IF m.split_commit.some
        THEN <<[key |-> KeySplit, text |-> hex(m.split_commit.v)]>>
        ELSE <<>>)

\* C12: format_trailers gives one line per set field and none for an unset
\* one, in the order git-subtree-dir, git-subtree-mainline,
\* git-subtree-split, every line ended by a newline, and the empty text when
\* no field is set.
C12_OneLinePerSetFieldInOrder ==
    formatted.some =>
        LET fields == SetFields(metadata)
            pieces == SplitNewline(formatted.value, <<>>)
        IN  /\ (Len(fields) = 0) <=> (formatted.value = <<>>)
            /\ (Len(fields) > 0) =>
                   /\ formatted.value[Len(formatted.value)] = "\n"
                   /\ Len(pieces) = Len(fields) + 1
                   /\ \A i \in 1..Len(fields) :
                          pieces[i] = <<fields[i].key, ":", " ">> \o fields[i].text

C12_Witness ==
    /\ formatted.some
    /\ metadata.subtree_dir.some
    /\ Len(metadata.subtree_dir.v) = 2
    /\ ~metadata.mainline_commit.some
    /\ metadata.split_commit.some
    /\ Len(SplitNewline(formatted.value, <<>>)) = 3

\* The trailers of the list ts with the key and a value that reads as a
\* repository path (dir) or as a commit id (the other two keys).
WellFormedTrailers(ts, key) ==
    {i \in 1..Len(ts) :
        /\ ts[i].key = <<key>>
        /\ IF key = KeyDir THEN from_internal_string(ts[i].value).ok
           ELSE try_from_hex(ts[i].value).some}

\* C13: parse always returns a record: each field is set exactly when the
\* description has a trailer of its key with a well-formed value, whatever
\* the other trailers are, malformed or of another key.
C13_MalformedLeavesOnlyThatFieldUnset ==
    parsed.some =>
        LET ts == parse_description_trailers(descs[Len(descs)])
            dirs == WellFormedTrailers(ts, KeyDir)
            mainlines == WellFormedTrailers(ts, KeyMainline)
            splits == WellFormedTrailers(ts, KeySplit)
            m == parsed.value
        IN  /\ DOMAIN m = {"subtree_dir", "mainline_commit", "split_commit"}
            /\ m.subtree_dir.some <=> (dirs # {})
            /\ m.mainline_commit.some <=> (mainlines # {})
            /\ m.split_commit.some <=> (splits # {})
            /\ m.subtree_dir.some =>
                   \E i \in dirs : m.subtree_dir.v = from_internal_string(ts[i].value).path
            /\ m.mainline_commit.some =>
                   \E i \in mainlines : m.mainline_commit = try_from_hex(ts[i].value)
            /\ m.split_commit.some =>
                   \E i \in splits : m.split_commit = try_from_hex(ts[i].value)

\* A description whose trailers are a directory with a malformed path and a
\* mainline with a well-formed id: only the mainline is set.
C13_Witness ==
    /\ parsed.some
    /\ Len(descs) = 1
    /\ LET ts == parse_description_trailers(descs[1])
       IN  /\ Len(ts) = 2
           /\ ts[1].key = <<KeyDir>>
           /\ ~from_internal_string(ts[1].value).ok
           /\ ts[2].key = <<KeyMainline>>
    /\ ~parsed.value.subtree_dir.some
    /\ parsed.value.mainline_commit = Some(<<15>>)

\* C14: has_metadata is true exactly when the trailers of the description
\* include the key git-subtree-dir, git-subtree-mainline or
\* git-subtree-split; no trailers, or only other trailers, give false.
C14_TrueIffRecognizedKey ==
    has.some =>
        LET ts == parse_description_trailers(descs[Len(descs)])
            keys == {ts[i].key : i \in 1..Len(ts)}
        IN  /\ has.value <=> (keys \cap {<<KeyDir>>, <<KeyMainline>>, <<KeySplit>>} # {})
            /\ (keys \subseteq {<<KeySignedOff>>}) => ~has.value

\* Only a sign-off line in the trailers.
C14_Witness ==
    /\ has.some
    /\ ~has.value
    /\ LET ts == parse_description_trailers(descs[Len(descs)])
       IN  Len(ts) > 0 /\ \A i \in 1..Len(ts) : ts[i].key = <<KeySignedOff>>

\* The greatest number of a set of numbers that is not empty.
Greatest(S) == CHOOSE i \in S : \A j \in S : j <= i

\* C28: when the trailers hold a key more than once, parse sets the field
\* to the value of the last trailer of the key whose value is well-formed;
\* a malformed value after it does not clear the field.
C28_LastWellFormedOccurrenceWins ==
    parsed.some =>
        LET ts == parse_description_trailers(descs[Len(descs)])
            dirs == WellFormedTrailers(ts, KeyDir)
            mainlines == WellFormedTrailers(ts, KeyMainline)
            splits == WellFormedTrailers(ts, KeySplit)
            m == parsed.value
        IN  /\ (dirs # {}) =>
                   m.subtree_dir = Some(from_internal_string(ts[Greatest(dirs)].value).path)
            /\ (mainlines # {}) =>
                   m.mainline_commit = try_from_hex(ts[Greatest(mainlines)].value)
            /\ (splits # {}) =>
                   m.split_commit = try_from_hex(ts[Greatest(splits)].value)

\* Three directory trailers, a, b and the malformed /b: the field is b.
C28_Witness ==
    /\ parsed.some
    /\ descs[1] = <<"m", "\n", "\n",
                    KeyDir, ":", " ", "a", "\n",
                    KeyDir, ":", " ", "b", "\n",
                    KeyDir, ":", " ", "/", "b", "\n">>
    /\ Len(parse_description_trailers(descs[1])) = 3
    /\ parsed.value.subtree_dir = Some(<<<<"b">>>>)

\* C29: a description from which parse sets a field is one for which
\* has_metadata is true.  The witness is a description for which the
\* converse fails: has_metadata is true and parse sets no field.
C29_ParsedFieldImpliesHasMetadata ==
    (parsed.some /\ has.some) =>
        ((\/ parsed.value.subtree_dir.some
          \/ parsed.value.mainline_commit.some
          \/ parsed.value.split_commit.some) => has.value)

\* A directory trailer with a malformed path and nothing else recognized.
C29_Witness ==
    /\ parsed.some
    /\ has.some
    /\ has.value
    /\ parsed.value = default
    /\ LET ts == parse_description_trailers(descs[Len(descs)])
       IN  /\ Len(ts) = 1
           /\ ts[1].key = <<KeyDir>>
           /\ ~from_internal_string(ts[1].value).ok

(***************************************************************************)
(* Properties of the remote operations.                                    *)
(***************************************************************************)

\* C15: for a store that Git does not back, create_subtree_backend gives a
\* backend that answers false to supports_remote_operations and whose
\* fetch_remote and push_remote fail with RemoteNotSupported whatever they
\* are given, with no subprocess run and no remote or ref changed.
C15_LocalBackendNotSupported ==
    (~store_git /\ backend.made = "create_subtree_backend") =>
        /\ supported.some => ~supported.value
        /\ \A c \in Callers :
               (calls[c].pc # "idle") =>
                   /\ calls[c].pc = "done"
                   /\ calls[c].returned = [ok |-> FALSE, error |-> [kind |-> "RemoteNotSupported"]]
                   /\ calls[c].setup = <<>>
                   /\ calls[c].attempt = <<>>
                   /\ calls[c].cleanup = <<>>
        /\ temp_remote = "none"
        /\ local_refs = NoRefs
        /\ remote = RemoteRepositories

C15_Witness ==
    /\ ~store_git
    /\ backend.made = "create_subtree_backend"
    /\ supported = [some |-> TRUE, value |-> FALSE]
    /\ calls[1].pc = "done"
    /\ calls[1].op = "push"
    /\ calls[1].force
    /\ calls[1].repository = "r1"
    /\ calls[1].returned.error.kind = "RemoteNotSupported"

\* C16, as claimed: a backend that answers true to
\* supports_remote_operations never fails a fetch or a push with
\* RemoteNotSupported, and one that answers false always does.
C16_SupportedMeansFunctional ==
    \A c \in Callers :
        (calls[c].pc = "done" /\ supported.some) =>
            (supported.value <=> ~(/\ ~calls[c].returned.ok
                             /\ calls[c].returned.error.kind = "RemoteNotSupported"))

\* C17, as claimed: when a call of the Git backend has returned, nothing is
\* registered under jj-subtree-temp.
C17_NoTempRemoteAfterReturn ==
    (calls[1].pc = "done" /\ backend.kind = "GitSubtreeBackend") => (temp_remote = "none")

\* C18: once setup_temp_remote has succeeded the call returns what the
\* fetch or push attempt gave: a fetch whose ref resolved to a commit id
\* returns that id, a push that exited with success returns Ok, a failed
\* attempt returns its own error, whatever the runs of update-ref -d and of
\* the closing remote remove gave.
C18_CleanupNeverChangesOutcome ==
    \A c \in Callers :
        (calls[c].pc = "done" /\ Len(calls[c].setup) = 2 /\ Len(calls[c].attempt) > 0) =>
            LET runs == calls[c].attempt
                out == calls[c].returned
            IN  /\ Len(calls[c].cleanup) = 1
                /\ out = calls[c].result
                /\ (calls[c].op = "push") =>
                       (out.ok <=> (runs[1].r.ok /\ runs[1].r.value.success))
                /\ (calls[c].op = "fetch") =>
                       (out.ok <=>
                           /\ Len(runs) = 3
                           /\ runs[1].r.ok /\ runs[1].r.value.success
                           /\ runs[2].r.ok /\ runs[2].r.value.success)
                /\ (calls[c].op = "fetch" /\ out.ok) =>
                       hex(out.value) \o <<"\n">> = runs[2].r.value.stdout

\* A fetch that returns the commit although neither the reserved ref could
\* be deleted nor the remote removed.
C18_Witness ==
    /\ calls[1].pc = "done"
    /\ calls[1].op = "fetch"
    /\ calls[1].returned = [ok |-> TRUE, value |-> <<205>>]
    /\ ~calls[1].attempt[3].r.ok
    /\ calls[1].cleanup[1].r.ok
    /\ ~calls[1].cleanup[1].r.value.success
    /\ temp_remote = "r1"

\* C19, as claimed: a push_remote that fails, fails with RemoteNotSupported
\* or with PushFailed.
C19_PushFailsOnlyWithPushErrors ==
    \A c \in Callers :
        (calls[c].pc = "done" /\ calls[c].op = "push" /\ ~calls[c].returned.ok) =>
            calls[c].returned.error.kind \in {"RemoteNotSupported", "PushFailed"}

\* The name of the ref on the side of the remote.
QualifiedRef(name) ==
    IF Len(name) >= 2 /\ name[1] = "refs" /\ name[2] = "/"
    THEN name
    ELSE <<"refs", "/", "heads", "/">> \o name

\* C20, as claimed: a fetch_remote whose fetch command ran against the
\* repository asked for, which does not have the ref, fails with RefNotFound
\* carrying the name the caller gave.
C20_MissingRefIsRefNotFound ==
    \A c \in Callers :
        (/\ calls[c].pc = "done"
         /\ calls[c].op = "fetch"
         /\ Len(calls[c].attempt) >= 1
         /\ calls[c].attempt[1].r.ok
         /\ QualifiedRef(calls[c].remote_ref) \notin DOMAIN remote[calls[c].repository]) =>
            calls[c].returned = [ok |-> FALSE,
                                 error |-> [kind |-> "RefNotFound",
                                            ref |-> calls[c].remote_ref]]

\* The place of the first ":" of a refspec.
ColonAt(refspec) ==
    CHOOSE k \in 1..Len(refspec) :
        refspec[k] = ":" /\ \A j \in 1..(k - 1) : refspec[j] # ":"

\* C21: the fetch command names, before the ":", the ref of the remote as
\* refs/heads/<name> for a name that does not start with refs/ and as the
\* name itself for one that does; the push command names that same ref
\* after the ":", and its refspec starts with "+" exactly when the caller
\* asked for a forced push.
C21_QualifiedRefAndForceMark ==
    \A c \in Callers :
        \A i \in 1..Len(calls[c].attempt) :
            LET run == calls[c].attempt[i]
                k == ColonAt(run.arg)
            IN  /\ (run.cmd = "fetch") =>
                       SubSeq(run.arg, 1, k - 1) = QualifiedRef(calls[c].remote_ref)
                /\ (run.cmd = "push") =>
                       /\ SubSeq(run.arg, k + 1, Len(run.arg)) =
                              QualifiedRef(calls[c].remote_ref)
                       /\ (run.arg[1] = "+") <=> calls[c].force
                       /\ SubSeq(run.arg, IF calls[c].force THEN 2 ELSE 1, k - 1) =
                              hex(calls[c].local_commit)

\* A forced push of a short name has been issued: its refspec starts with
\* "+" and ends with refs/heads/main.
C21_Witness ==
    /\ calls[1].op = "push"
    /\ Len(calls[1].attempt) = 1
    /\ calls[1].remote_ref = <<"main">>
    /\ calls[1].force
    /\ calls[1].attempt[1].arg =
           <<"+">> \o hex(<<205>>) \o <<":", "refs", "/", "heads", "/", "main">>

(***************************************************************************)
(* Properties of two calls that run together.                              *)
(***************************************************************************)

\* The caller's fetch or push command ran while jj-subtree-temp did not
\* point at the repository the caller asked for.
Collided(c) ==
    \E i \in 1..Len(calls[c].attempt) :
        /\ calls[c].attempt[i].cmd \in {"fetch", "push"}
        /\ calls[c].attempt[i].r.ok
        /\ calls[c].attempt[i].at # calls[c].repository

\* The caller has removed or registered jj-subtree-temp.
ChangedRegistration(c) ==
    \E i \in 1..Len(calls[c].setup \o calls[c].cleanup) :
        LET run == (calls[c].setup \o calls[c].cleanup)[i]
        IN  run.r.ok /\ run.r.value.success

\* C22: two calls that run together collide on jj-subtree-temp, and only
\* such calls do: a fetch or push command runs against a registration that
\* is not the caller's own only when the other caller has removed or
\* registered the remote in between.  The witness is the collision.
C22_CollisionOnlyWithTheOtherCall ==
    \A c \in Callers :
        Collided(c) => \E d \in Callers \ {c} : ChangedRegistration(d)

\* Both collisions at once: the fetch of caller 1 ran while the remote
\* pointed at the repository of caller 2, and the push of caller 2 ran
\* after caller 1 had removed the registration.
C22_Witness ==
    /\ calls[1].op = "fetch"
    /\ calls[1].repository = "r2"
    /\ Len(calls[1].attempt) >= 1
    /\ calls[1].attempt[1].r.ok
    /\ calls[1].attempt[1].at = "r1"
    /\ calls[1].returned = [ok |-> TRUE, value |-> <<205>>]
    /\ calls[2].op = "push"
    /\ calls[2].repository = "r1"
    /\ Len(calls[2].attempt) = 1
    /\ calls[2].attempt[1].r.ok
    /\ calls[2].attempt[1].at = "none"

(***************************************************************************)
(* Properties of the order of the commands of one call.                    *)
(***************************************************************************)

\* The commands of the attempt of a call, oldest first.
AttemptCmds(c) == [i \in 1..Len(calls[c].attempt) |-> calls[c].attempt[i].cmd]

\* C23, as claimed: in a fetch the closing removal of the remote has been
\* issued by the time the fetched ref is resolved.
C23_RemovedBeforeResolved ==
    \A c \in Callers :
        (/\ calls[c].op = "fetch"
         /\ \E i \in 1..Len(calls[c].attempt) : calls[c].attempt[i].cmd = "rev-parse") =>
            calls[c].cleanup # <<>>

\* C23, amended: the fetched ref is resolved, and deleted when it resolved
\* to a commit id, before the closing removal of the remote: while commands
\* of the attempt are still to come no removal has been issued, and once it
\* has, a fetch command that succeeded has been followed by rev-parse and a
\* resolved id by update-ref -d.
C23_ResolvedBeforeRemoved ==
    \A c \in Callers :
        /\ (calls[c].pc = "attempt") => (calls[c].cleanup = <<>>)
        /\ (calls[c].op = "fetch" /\ calls[c].cleanup # <<>>) =>
               LET runs == calls[c].attempt
               IN  /\ calls[c].pc = "done"
                   /\ (runs[1].r.ok /\ runs[1].r.value.success) =>
                          (Len(runs) >= 2 /\ runs[2].cmd = "rev-parse")
                   /\ calls[c].result.ok =>
                          AttemptCmds(c) = <<"fetch", "rev-parse", "update-ref -d">>

\* A fetch that resolved and deleted the ref and then removed the remote.
C23_Witness ==
    /\ calls[1].op = "fetch"
    /\ calls[1].pc = "done"
    /\ AttemptCmds(1) = <<"fetch", "rev-parse", "update-ref -d">>
    /\ calls[1].attempt[3].r.ok
    /\ calls[1].attempt[3].r.value.success
    /\ Len(calls[1].cleanup) = 1
    /\ calls[1].cleanup[1].r.ok
    /\ calls[1].cleanup[1].r.value.success
    /\ calls[1].returned.ok

(***************************************************************************)
(* Properties of the errors of the Git backend.                            *)
(***************************************************************************)

\* The push command of the caller ran and gave this exit status and this
\* standard output.
PushGave(c, success, marked) ==
    /\ calls[c].pc = "done"
    /\ calls[c].op = "push"
    /\ Len(calls[c].attempt) = 1
    /\ calls[c].attempt[1].r.ok
    /\ calls[c].attempt[1].r.value.success = success
    /\ (calls[c].attempt[1].r.value.stdout = <<"![rejected]">>) = marked

PushFailedWith(c, message) ==
    /\ ~calls[c].returned.ok
    /\ calls[c].returned.error.kind = "PushFailed"
    /\ calls[c].returned.error.message = message

\* C24, as claimed: a push whose output holds the rejection marker fails
\* with the PushFailed of a rejection whatever the exit status; one without
\* the marker fails with the PushFailed of the diagnostic output exactly
\* when the exit status is not zero.
C24_MarkerFailsWhateverTheStatus ==
    \A c \in Callers :
        /\ \A success \in BOOLEAN :
               PushGave(c, success, TRUE) => PushFailedWith(c, "Push rejected")
        /\ PushGave(c, FALSE, FALSE) => PushFailedWith(c, "stderr")
        /\ PushGave(c, TRUE, FALSE) => calls[c].returned.ok

\* C24, amended: the marker is looked for only when the exit status is not
\* zero.  A push that exits with zero succeeds whatever its output; one that
\* exits with another status fails with the PushFailed of a rejection when
\* the output holds the marker and with the PushFailed of the diagnostic
\* output when it does not.
C24_MarkerCountsOnlyOnFailure ==
    \A c \in Callers :
        /\ \A marked \in BOOLEAN : PushGave(c, TRUE, marked) => calls[c].returned.ok
        /\ PushGave(c, FALSE, TRUE) => PushFailedWith(c, "Push rejected")
        /\ PushGave(c, FALSE, FALSE) => PushFailedWith(c, "stderr")

\* A push that was not forced onto a ref the remote has was rejected.
C24_Witness ==
    /\ PushGave(1, FALSE, TRUE)
    /\ PushFailedWith(1, "Push rejected")
    /\ ~calls[1].force
    /\ calls[1].repository = "r1"
    /\ calls[1].remote_ref = <<"main">>

\* C25, as claimed: a fetch_remote whose fetch command succeeded issues the
\* delete of the reserved local ref before it returns, whatever it returns.
C25_ReservedRefDeleteAlwaysIssued ==
    \A c \in Callers :
        (/\ calls[c].pc = "done"
         /\ calls[c].op = "fetch"
         /\ Len(calls[c].attempt) >= 1
         /\ calls[c].attempt[1].r.ok
         /\ calls[c].attempt[1].r.value.success) =>
            \E i \in 1..Len(calls[c].attempt) :
                /\ calls[c].attempt[i].cmd = "update-ref -d"
                /\ calls[c].attempt[i].arg =
                       <<"refs", "/", "jj", "/", "subtree-fetch", "/">> \o calls[c].remote_ref

\* C26, as claimed: the repository of every FetchFailed and PushFailed a
\* call returns is the repository the caller passed.
C26_ErrorNamesTheCallersRepository ==
    \A c \in Callers :
        (/\ calls[c].pc = "done"
         /\ ~calls[c].returned.ok
         /\ calls[c].returned.error.kind \in {"FetchFailed", "PushFailed"}) =>
            calls[c].returned.error.repository = calls[c].repository

\* The run gave an exit status of zero.
RunSucceeded(run) == IF run.r.ok THEN run.r.value.success ELSE FALSE

\* C27: the first command of a call of the Git backend is the removal of a
\* stale jj-subtree-temp, and whatever it gave the registration follows;
\* when the registration fails the call returns an error with no fetch or
\* push command and no further removal issued, and when it succeeds the
\* call goes on to the fetch or push even though the removal had failed.
C27_RemoveFirstThenAddOrReturn ==
    \A c \in Callers :
        LET setup == calls[c].setup
        IN  /\ (calls[c].attempt # <<>> \/ calls[c].cleanup # <<>>) => Len(setup) = 2
            /\ Len(setup) >= 1 =>
                   /\ setup[1].cmd = "remote remove"
                   /\ (Len(setup) = 1) => (calls[c].pc = "setup_add")
            /\ Len(setup) = 2 =>
                   /\ setup[2].cmd = "remote add"
                   /\ setup[2].arg = <<"jj-subtree-temp", calls[c].repository>>
                   /\ ~RunSucceeded(setup[2]) =>
                          /\ calls[c].pc = "done"
                          /\ ~calls[c].returned.ok
                          /\ calls[c].attempt = <<>>
                          /\ calls[c].cleanup = <<>>
                   /\ RunSucceeded(setup[2]) =>
                          (calls[c].pc = "attempt" \/ calls[c].attempt # <<>>)

\* The stale removal failed, the registration was tried all the same and
\* failed too: the push returned an error and no other command was issued.
C27_Witness ==
    /\ calls[1].op = "push"
    /\ calls[1].pc = "done"
    /\ Len(calls[1].setup) = 2
    /\ calls[1].setup[1].r.ok
    /\ ~RunSucceeded(calls[1].setup[1])
    /\ calls[1].setup[2].r.ok
    /\ ~RunSucceeded(calls[1].setup[2])
    /\ calls[1].returned.error.kind = "FetchFailed"
    /\ calls[1].attempt = <<>>
    /\ calls[1].cleanup = <<>>
    /\ temp_remote = "r2"
    /\ calls[1].repository = "r1"

====
